---- MODULE Spec2Model ----
(***************************************************************************)
(* A model of src/multiprocess.py: the bad-character substring search over *)
(* a file read in chunks (build_shift_table, bm_search), the worker that   *)
(* scans a slice of the file list (search_keywords_in_files) and the       *)
(* coordinator that partitions the list, spawns the workers, joins them    *)
(* and drains the result queue (multiprocessing_search).                   *)
(*                                                                         *)
(* Text is a sequence of one-character strings.  Python's 0-based index k  *)
(* is the 1-based index k + 1 here; cursors (i, j, pos) keep Python's      *)
(* values.  A dict is a function whose DOMAIN is its set of keys.          *)
(***************************************************************************)
EXTENDS Integers, Sequences, FiniteSets, TLC

VARIABLES
    scan,           \* the frame of one stand-alone bm_search call (ScanSpec)
    files,          \* the file list: files[f] is what path f holds on disk
    keywords,       \* the keyword list
    num_processes,  \* worker count
    buffer_size,    \* chunk size of the reader
    pipeCap,        \* capacity of the queue's pipe, in message units
    cpc,            \* coordinator position: "off", "spawn", "join", "drain", "returned"
    ci,             \* coordinator loop index (spawn loop, then join loop), 1-based
    wpc,            \* per worker: "idle", "scan", "put", "flush", "done", "crashed"
    slice,          \* per worker: the file ids of its slice (process_files)
    wfi,            \* per worker: 1-based index of the next file of its slice
    results,        \* per worker: its results dict (the PartialResult)
    lock,           \* holder of the lock passed to the workers, 0 when free
    pipe,           \* complete messages in the queue's pipe, oldest first
    wlock,          \* feeder holding the queue's write lock, 0 when free
    written,        \* units of the message under way already in the pipe
    final_results,  \* the coordinator's final_results dict
    puts            \* per worker: the queue.put calls it has made

vars == <<scan, files, keywords, num_processes, buffer_size, pipeCap, cpc, ci,
          wpc, slice, wfi, results, lock, pipe, wlock, written, final_results,
          puts>>

sysvars == <<files, keywords, num_processes, buffer_size, pipeCap, cpc, ci,
             wpc, slice, wfi, results, lock, pipe, wlock, written, final_results,
             puts>>

(***************************************************************************)
(* Bounds and input domains                                                *)
(***************************************************************************)
Alphabet == {"a", "b"}

\* stand-alone scan (ScanSpec): file length, pattern length, buffer size
ScanMaxLen == 4
ScanMaxPat == 3
ScanMaxBuf == 4

\* whole search (Spec): number of files and of worker processes
MaxFiles == 2
MaxProcs == 3

\* the spawn loop alone (PartSpec): number of files and of worker processes
PartMaxFiles == 6
PartMaxProcs == 8

StrUpTo(n) == UNION {[1..k -> Alphabet] : k \in 0..n}

\* contents of the files of the whole search
FileContents == {<<"a", "a">>, <<"a", "b">>, <<"b">>, <<"b", "a", "b">>}

\* what a path names: a file that reads well, nothing, or a file one read
\* of which raises (failp: the pass over the file, that is the index of the
\* keyword being searched, in which the read fails, 0 for never; failpos:
\* the 1-based position in the content that the failing read covers)
GoodFile(c) == [exists |-> TRUE, content |-> c, failp |-> 0, failpos |-> 0]

MissingFile == [exists |-> FALSE, content |-> <<>>, failp |-> 0, failpos |-> 0]

\* a file whose third character cannot be read during the second pass
FailingFile == [exists |-> TRUE, content |-> <<"b", "a", "b">>, failp |-> 2, failpos |-> 3]

FileKinds == {GoodFile(c) : c \in FileContents} \cup {MissingFile, FailingFile}

\* keyword lists of the whole search; <<>> is the empty keyword ""
KeywordLists == {<< <<"a">>, <<"b">> >>,
                 << <<"b">>, <<"a", "b">> >>,
                 << <<"a">>, <<>> >>}

BufferSizes == {1, 2}

\* a pipe too small for some runs' results, and one that holds every run's
PipeCaps == {3, 12}

Min(a, b) == IF a <= b THEN a ELSE b

(***************************************************************************)
(* Dicts                                                                   *)
(***************************************************************************)
EmptyDict == [k \in {} |-> <<>>]

\* d.get(k, default)
DictGet(d, k, default) == IF k \in DOMAIN d THEN d[k] ELSE default

\* d[k] = v
DictPut(d, k, v) == [x \in DOMAIN d \cup {k} |-> IF x = k THEN v ELSE d[x]]

\* d.setdefault(k, v)
SetDefault(d, k, v) == IF k \in DOMAIN d THEN d ELSE DictPut(d, k, v)

\* d[k].append(v) on a defaultdict(list)
ListAppend(d, k, v) == DictPut(d, k, Append(DictGet(d, k, <<>>), v))

\* ExtendAll done for every keyword of the list, found or not
ExtendAllKeywords(d, r) ==
    [k \in DOMAIN d \cup DOMAIN r \cup {keywords[n] : n \in 1..Len(keywords)} |->
        DictGet(d, k, <<>>) \o DictGet(r, k, <<>>)]

\* for k, paths in r.items(): d[k].extend(paths), on a defaultdict(list)
ExtendAll(d, r) ==
    [k \in DOMAIN d \cup DOMAIN r |-> DictGet(d, k, <<>>) \o DictGet(r, k, <<>>)]

(***************************************************************************)
(* build_shift_table                                                       *)
(***************************************************************************)
\* ShiftLoop keeping the first value set for a character
RECURSIVE ShiftLoopLeftmost(_, _, _)
ShiftLoopLeftmost(pattern, index, table) ==
    IF index <= Len(pattern) - 2
    THEN ShiftLoopLeftmost(pattern, index + 1,
                           SetDefault(table, pattern[index + 1], Len(pattern) - index - 1))
    ELSE table

\* ShiftLoop over the whole pattern, its last character included
RECURSIVE ShiftLoopWholePattern(_, _, _)
ShiftLoopWholePattern(pattern, index, table) ==
    IF index <= Len(pattern) - 1
    THEN ShiftLoopWholePattern(pattern, index + 1,
                               DictPut(table, pattern[index + 1], Len(pattern) - index - 1))
    ELSE table

\* the loop over enumerate(pattern[:-1]); index is Python's
RECURSIVE ShiftLoop(_, _, _)
ShiftLoop(pattern, index, table) ==
    IF index <= Len(pattern) - 2
    THEN ShiftLoop(pattern, index + 1,
                   DictPut(table, pattern[index + 1], Len(pattern) - index - 1))
    ELSE table

\* defined for a non-empty pattern; pattern[-1] raises IndexError on ""
build_shift_table(pattern) ==
    SetDefault(ShiftLoop(pattern, 0, EmptyDict), pattern[Len(pattern)], Len(pattern))

(***************************************************************************)
(* The matching loop of bm_search over one chunk                           *)
(***************************************************************************)
\* while j >= 0 and chunk[i + j] == pattern[j]: j -= 1
RECURSIVE CompareLoop(_, _, _, _)
CompareLoop(chunk, pattern, i, j) ==
    IF j >= 0 /\ chunk[i + j + 1] = pattern[j + 1]
    THEN CompareLoop(chunk, pattern, i, j - 1)
    ELSE j

\* Shift without the table: always the pattern's length
ShiftAlwaysLength(chunk, pattern, shift_table, i) == Len(pattern)

\* i += shift_table.get(chunk[i + len(pattern) - 1], len(pattern))
Shift(chunk, pattern, shift_table, i) ==
    DictGet(shift_table, chunk[i + Len(pattern)], Len(pattern))

\* WindowLoop that takes a mismatch at j = 0 for a match
RECURSIVE WindowLoopOffByOne(_, _, _, _)
WindowLoopOffByOne(chunk, pattern, shift_table, i) ==
    IF i <= Len(chunk) - Len(pattern)
    THEN IF CompareLoop(chunk, pattern, i, Len(pattern) - 1) <= 0
         THEN TRUE
         ELSE WindowLoopOffByOne(chunk, pattern, shift_table,
                                 i + Shift(chunk, pattern, shift_table, i))
    ELSE FALSE

\* the while loop from cursor i: TRUE when it leaves by the break
RECURSIVE WindowLoop(_, _, _, _)
WindowLoop(chunk, pattern, shift_table, i) ==
    IF i <= Len(chunk) - Len(pattern)
    THEN IF CompareLoop(chunk, pattern, i, Len(pattern) - 1) < 0
         THEN TRUE
         ELSE WindowLoop(chunk, pattern, shift_table,
                         i + Shift(chunk, pattern, shift_table, i))
    ELSE FALSE

(***************************************************************************)
(* read_file_in_chunks and bm_search as functions                          *)
(***************************************************************************)
\* f.read(buffer_size) at offset pos
ReadBuffer(content, pos, size) ==
    SubSeq(content, pos + 1, Min(pos + size, Len(content)))

\* f.read(buffer_size) at offset pos raises, in the p-th pass over the file
ReadFails(file, p, pos, size) ==
    file.failp = p /\ pos < file.failpos /\ file.failpos <= pos + size

\* for chunk in read_file_in_chunks(...), from offset pos, in the p-th pass;
\* dict is result_dict as the loop leaves it
RECURSIVE ChunkLoop(_, _, _, _, _, _, _, _)
ChunkLoop(fid, file, p, pattern, shift_table, size, pos, result_dict) ==
    LET buffer == ReadBuffer(file.content, pos, size) IN
    IF ReadFails(file, p, pos, size)
    THEN [exc |-> "OSError", dict |-> result_dict]
    ELSE IF buffer = <<>>
    THEN [exc |-> "none", dict |-> result_dict]
    ELSE ChunkLoop(fid, file, p, pattern, shift_table, size, pos + Len(buffer),
                   IF WindowLoop(buffer, pattern, shift_table, 0)
                   THEN ListAppend(result_dict, pattern, fid)
                   ELSE result_dict)

\* for pattern in patterns_list, from the p-th pattern
RECURSIVE PatternLoop(_, _, _, _, _, _)
PatternLoop(fid, file, patterns_list, size, p, result_dict) ==
    IF p > Len(patterns_list)
    THEN [exc |-> "none", dict |-> result_dict]
    ELSE IF patterns_list[p] = <<>>
    THEN [exc |-> "IndexError", dict |-> result_dict]
    ELSE IF ~file.exists
    THEN [exc |-> "FileNotFoundError", dict |-> result_dict]
    ELSE LET chunks == ChunkLoop(fid, file, p, patterns_list[p],
                                 build_shift_table(patterns_list[p]), size, 0,
                                 result_dict)
         IN  IF chunks.exc # "none"
             THEN chunks
             ELSE PatternLoop(fid, file, patterns_list, size, p + 1, chunks.dict)

\* how the call ends: exc = "none" when it returns dict; otherwise the
\* exception it raises, dict being its local result_dict at that point,
\* which no caller can reach
bm_search(fid, file, patterns_list, size) ==
    PatternLoop(fid, file, patterns_list, size, 1, EmptyDict)

(***************************************************************************)
(* ScanSpec: one bm_search call, step by step.  scan.pc is the position in *)
(* the function: "pattern" (head of the for over patterns_list), "read"    *)
(* (the reader's f.read), "window" (head of the while), "return" and       *)
(* "raised" (the call has ended).                                          *)
(***************************************************************************)
ScanFid == 1

ScanOff ==
    [pc |-> "off", file |-> MissingFile,
     patterns_list |-> <<>>, size |-> 1, p |-> 1, shift_table |-> EmptyDict,
     pos |-> 0, chunk |-> <<>>, i |-> 0, n |-> 0, result_dict |-> EmptyDict,
     exc |-> "none"]

SysOff ==
    /\ files = <<>>
    /\ keywords = <<>>
    /\ num_processes = 1
    /\ buffer_size = 1
    /\ pipeCap = 1
    /\ cpc = "off"
    /\ ci = 1
    /\ wpc = <<>>
    /\ slice = <<>>
    /\ wfi = <<>>
    /\ results = <<>>
    /\ lock = 0
    /\ pipe = <<>>
    /\ wlock = 0
    /\ written = 0
    /\ final_results = EmptyDict
    /\ puts = <<>>

\* every content, read well or with one failing read in the first pass
ScanFiles ==
    {GoodFile(c) : c \in StrUpTo(ScanMaxLen)}
      \cup {MissingFile}
      \cup UNION {{[GoodFile(c) EXCEPT !.failp = 1, !.failpos = k] : k \in 1..Len(c)} :
                      c \in StrUpTo(ScanMaxLen)}

ScanPatternLists == {<<>>} \cup {<<pt>> : pt \in StrUpTo(ScanMaxPat)}

ScanInit ==
    /\ SysOff
    /\ \E f \in ScanFiles, pl \in ScanPatternLists, b \in 1..ScanMaxBuf :
          scan = [ScanOff EXCEPT !.pc = "pattern", !.file = f,
                                 !.patterns_list = pl, !.size = b]

ScanPattern == scan.patterns_list[scan.p]

\* the for over patterns_list is exhausted: return result_dict
ScanReturn ==
    /\ scan.pc = "pattern"
    /\ scan.p > Len(scan.patterns_list)
    /\ scan' = [scan EXCEPT !.pc = "return"]
    /\ UNCHANGED sysvars

\* build_shift_table("") raises IndexError at pattern[-1]
ScanRaiseIndexError ==
    /\ scan.pc = "pattern"
    /\ scan.p <= Len(scan.patterns_list)
    /\ ScanPattern = <<>>
    /\ scan' = [scan EXCEPT !.pc = "raised", !.exc = "IndexError"]
    /\ UNCHANGED sysvars

\* the reader's open() raises on its first next()
ScanRaiseNotFound ==
    /\ scan.pc = "pattern"
    /\ scan.p <= Len(scan.patterns_list)
    /\ ScanPattern # <<>>
    /\ ~scan.file.exists
    /\ scan' = [scan EXCEPT !.pc = "raised", !.exc = "FileNotFoundError",
                            !.shift_table = build_shift_table(ScanPattern)]
    /\ UNCHANGED sysvars

\* the shift table is built and the file opened for this pattern
ScanOpen ==
    /\ scan.pc = "pattern"
    /\ scan.p <= Len(scan.patterns_list)
    /\ ScanPattern # <<>>
    /\ scan.file.exists
    /\ scan' = [scan EXCEPT !.pc = "read", !.pos = 0,
                            !.shift_table = build_shift_table(ScanPattern)]
    /\ UNCHANGED sysvars

\* f.read raises
ScanRaiseReadError ==
    /\ scan.pc = "read"
    /\ ReadFails(scan.file, scan.p, scan.pos, scan.size)
    /\ scan' = [scan EXCEPT !.pc = "raised", !.exc = "OSError"]
    /\ UNCHANGED sysvars

\* f.read returns a non-empty buffer: the chunk is yielded, i = 0;
\* scan.n counts the iterations of the while over this chunk
ScanRead ==
    /\ scan.pc = "read"
    /\ ~ReadFails(scan.file, scan.p, scan.pos, scan.size)
    /\ LET buffer == ReadBuffer(scan.file.content, scan.pos, scan.size) IN
       /\ buffer # <<>>
       /\ scan' = [scan EXCEPT !.pc = "window", !.chunk = buffer,
                               !.pos = scan.pos + Len(buffer), !.i = 0, !.n = 0]
    /\ UNCHANGED sysvars

\* f.read returns "": the reader ends, the for goes to the next pattern
ScanEOF ==
    /\ scan.pc = "read"
    /\ ~ReadFails(scan.file, scan.p, scan.pos, scan.size)
    /\ ReadBuffer(scan.file.content, scan.pos, scan.size) = <<>>
    /\ scan' = [scan EXCEPT !.pc = "pattern", !.p = scan.p + 1]
    /\ UNCHANGED sysvars

\* the while condition fails: on to the next chunk
WindowExit ==
    /\ scan.pc = "window"
    /\ ~(scan.i <= Len(scan.chunk) - Len(ScanPattern))
    /\ scan' = [scan EXCEPT !.pc = "read"]
    /\ UNCHANGED sysvars

\* j < 0: the file is appended under the pattern and the while is left
WindowFound ==
    /\ scan.pc = "window"
    /\ scan.i <= Len(scan.chunk) - Len(ScanPattern)
    /\ CompareLoop(scan.chunk, ScanPattern, scan.i, Len(ScanPattern) - 1) < 0
    /\ scan' = [scan EXCEPT !.pc = "read", !.n = scan.n + 1,
                   !.result_dict = ListAppend(scan.result_dict, ScanPattern, ScanFid)]
    /\ UNCHANGED sysvars

\* a mismatch: the cursor moves by the shift of the window's last character
WindowShift ==
    /\ scan.pc = "window"
    /\ scan.i <= Len(scan.chunk) - Len(ScanPattern)
    /\ CompareLoop(scan.chunk, ScanPattern, scan.i, Len(ScanPattern) - 1) >= 0
    /\ scan' = [scan EXCEPT !.n = scan.n + 1,
                   !.i = scan.i + Shift(scan.chunk, ScanPattern, scan.shift_table, scan.i)]
    /\ UNCHANGED sysvars

ScanNext ==
    \/ ScanReturn
    \/ ScanRaiseIndexError
    \/ ScanRaiseNotFound
    \/ ScanOpen
    \/ ScanRaiseReadError
    \/ ScanRead
    \/ ScanEOF
    \/ WindowExit
    \/ WindowFound
    \/ WindowShift

ScanSpec == ScanInit /\ [][ScanNext]_vars

\* the stepwise call ends as the function bm_search says
ScanAgreesWithFunction ==
    LET r == bm_search(ScanFid, scan.file, scan.patterns_list, scan.size) IN
    /\ scan.pc = "return" => r.exc = "none" /\ r.dict = scan.result_dict
    /\ scan.pc = "raised" => r.exc = scan.exc /\ r.dict = scan.result_dict

(***************************************************************************)
(* Spec: multiprocessing_search with its worker processes.                 *)
(*                                                                         *)
(* The result queue is a multiprocessing.Queue: put() leaves the object in *)
(* the putting process's buffer and returns; that process's feeder thread  *)
(* takes the queue's write lock and writes the pickled object to a pipe of *)
(* finite capacity, waiting while the pipe is full; a process that has put *)
(* an object ends only when its feeder has written it all.  A message      *)
(* takes one unit of the pipe, plus one per file entry it carries.         *)
(***************************************************************************)
Workers == 1..num_processes

\* the file list as paths: path f names files[f]
FilePaths == [f \in 1..Len(files) |-> f]

\* s[start:end] for 0 <= start, 0 <= end
PySlice(s, start, end) == SubSeq(s, start + 1, Min(end, Len(s)))

\* ProcessFiles without the last slice taking the remainder
ProcessFilesNoRemainder(i) ==
    LET chunk_size == Len(files) \div num_processes
    IN  PySlice(FilePaths, i * chunk_size, (i + 1) * chunk_size)

\* ProcessFiles with the chunk size rounded up
ProcessFilesCeil(i) ==
    LET chunk_size  == (Len(files) + num_processes - 1) \div num_processes
        start_index == i * chunk_size
        end_index   == IF i # num_processes - 1 THEN (i + 1) * chunk_size
                                                ELSE Len(files)
    IN  PySlice(FilePaths, start_index, end_index)

\* process_files of the i-th iteration of the spawn loop (i is Python's)
ProcessFiles(i) ==
    LET chunk_size  == Len(files) \div num_processes
        start_index == i * chunk_size
        end_index   == IF i # num_processes - 1 THEN (i + 1) * chunk_size
                                                ELSE Len(files)
    IN  PySlice(FilePaths, start_index, end_index)

RECURSIVE SumLens(_, _)
SumLens(d, keys) ==
    IF keys = {} THEN 0
    ELSE LET k == CHOOSE x \in keys : TRUE IN Len(d[k]) + SumLens(d, keys \ {k})

\* the room a pickled results dict takes in the pipe
MsgSize(d) == 1 + SumLens(d, DOMAIN d)

RECURSIVE SumSizes(_)
SumSizes(msgs) == IF msgs = <<>> THEN 0 ELSE MsgSize(Head(msgs)) + SumSizes(Tail(msgs))

PipeUsed == SumSizes(pipe) + written

\* queue.empty(): nothing to read from the pipe
QueueEmpty == pipe = <<>> /\ written = 0

\* the process has ended
Terminated(w) == wpc[w] \in {"done", "crashed"}

Init ==
    /\ scan = ScanOff
    /\ files \in UNION {[1..n -> FileKinds] : n \in 0..MaxFiles}
    /\ keywords \in KeywordLists
    /\ num_processes \in 1..MaxProcs
    /\ buffer_size \in BufferSizes
    /\ pipeCap \in PipeCaps
    /\ cpc = "spawn"
    /\ ci = 1
    /\ wpc = [w \in Workers |-> "idle"]
    /\ slice = [w \in Workers |-> <<>>]
    /\ wfi = [w \in Workers |-> 1]
    /\ results = [w \in Workers |-> EmptyDict]
    /\ lock = 0
    /\ pipe = <<>>
    /\ wlock = 0
    /\ written = 0
    /\ final_results = EmptyDict
    /\ puts = [w \in Workers |-> 0]

\* one iteration of the spawn loop: Process(...).start() on the next slice
Spawn ==
    /\ cpc = "spawn"
    /\ slice' = [slice EXCEPT ![ci] = ProcessFiles(ci - 1)]
    /\ wpc' = [wpc EXCEPT ![ci] = "scan"]
    /\ IF ci = num_processes
       THEN cpc' = "join" /\ ci' = 1
       ELSE cpc' = "spawn" /\ ci' = ci + 1
    /\ UNCHANGED <<scan, puts, files, keywords, num_processes, buffer_size, pipeCap,
                   wfi, results, lock, pipe, wlock, written, final_results>>

\* Join that does not wait for the process to end
JoinNoWait ==
    /\ cpc = "join"
    /\ IF ci = num_processes
       THEN cpc' = "drain" /\ ci' = 1
       ELSE cpc' = "join" /\ ci' = ci + 1
    /\ UNCHANGED <<scan, puts, files, keywords, num_processes, buffer_size, pipeCap,
                   wpc, slice, wfi, results, lock, pipe, wlock, written,
                   final_results>>

\* one iteration of the join loop: process.join() returns
Join ==
    /\ cpc = "join"
    /\ Terminated(ci)
    /\ IF ci = num_processes
       THEN cpc' = "drain" /\ ci' = 1
       ELSE cpc' = "join" /\ ci' = ci + 1
    /\ UNCHANGED <<scan, puts, files, keywords, num_processes, buffer_size, pipeCap,
                   wpc, slice, wfi, results, lock, pipe, wlock, written,
                   final_results>>

\* DrainGet with final_results.update(result) for the merge
DrainGetOverwrite ==
    /\ cpc = "drain"
    /\ ~QueueEmpty
    /\ pipe # <<>>
    /\ final_results' = [k \in DOMAIN final_results \cup DOMAIN Head(pipe) |->
                            DictGet(Head(pipe), k, DictGet(final_results, k, <<>>))]
    /\ pipe' = Tail(pipe)
    /\ UNCHANGED <<scan, puts, files, keywords, num_processes, buffer_size, pipeCap,
                   cpc, ci, wpc, slice, wfi, results, lock, wlock, written>>

\* one iteration of the drain loop: queue.get() and the merge
DrainGet ==
    /\ cpc = "drain"
    /\ ~QueueEmpty
    /\ pipe # <<>>
    /\ final_results' = ExtendAll(final_results, Head(pipe))
    /\ pipe' = Tail(pipe)
    /\ UNCHANGED <<scan, puts, files, keywords, num_processes, buffer_size, pipeCap,
                   cpc, ci, wpc, slice, wfi, results, lock, wlock, written>>

\* queue.empty() is true: the loop ends and final_results is returned
Return ==
    /\ cpc = "drain"
    /\ QueueEmpty
    /\ cpc' = "returned"
    /\ UNCHANGED <<scan, puts, files, keywords, num_processes, buffer_size, pipeCap,
                   ci, wpc, slice, wfi, results, lock, pipe, wlock, written,
                   final_results>>

\* ScanFile without the except clauses: an exception ends the process
ScanFileUncaught(w) ==
    /\ wpc[w] = "scan"
    /\ wfi[w] <= Len(slice[w])
    /\ LET file_path == slice[w][wfi[w]]
           search    == bm_search(file_path, files[file_path], keywords, buffer_size)
       IN  IF search.exc = "none"
           THEN /\ results' = [results EXCEPT ![w] = ExtendAll(results[w], search.dict)]
                /\ wfi' = [wfi EXCEPT ![w] = wfi[w] + 1]
                /\ UNCHANGED wpc
           ELSE /\ wpc' = [wpc EXCEPT ![w] = "crashed"]
                /\ UNCHANGED <<results, wfi>>
    /\ UNCHANGED <<scan, puts, files, keywords, num_processes, buffer_size, pipeCap,
                   cpc, ci, slice, lock, pipe, wlock, written, final_results>>

\* ScanFile with the hits of a failed scan kept: what a scan that appended
\* to the worker's results directly would leave
ScanFileKeepPartial(w) ==
    /\ wpc[w] = "scan"
    /\ wfi[w] <= Len(slice[w])
    /\ LET file_path == slice[w][wfi[w]]
           search    == bm_search(file_path, files[file_path], keywords, buffer_size)
       IN  results' = [results EXCEPT ![w] = ExtendAll(results[w], search.dict)]
    /\ wfi' = [wfi EXCEPT ![w] = wfi[w] + 1]
    /\ UNCHANGED wpc
    /\ UNCHANGED <<scan, puts, files, keywords, num_processes, buffer_size, pipeCap,
                   cpc, ci, slice, lock, pipe, wlock, written, final_results>>

\* one iteration of the worker's for over its files: the try block and its
\* except clauses, which log the error and go on
ScanFile(w) ==
    /\ wpc[w] = "scan"
    /\ wfi[w] <= Len(slice[w])
    /\ LET file_path == slice[w][wfi[w]]
           search    == bm_search(file_path, files[file_path], keywords, buffer_size)
       IN  results' = [results EXCEPT
                          ![w] = IF search.exc = "none"
                                 THEN ExtendAll(results[w], search.dict)
                                 ELSE results[w]]
    /\ wfi' = [wfi EXCEPT ![w] = wfi[w] + 1]
    /\ UNCHANGED wpc
    /\ UNCHANGED <<scan, puts, files, keywords, num_processes, buffer_size, pipeCap,
                   cpc, ci, slice, lock, pipe, wlock, written, final_results>>

\* AcquireLock that does not wait for the lock to be free
AcquireLockNoWait(w) ==
    /\ wpc[w] = "scan"
    /\ wfi[w] > Len(slice[w])
    /\ lock' = w
    /\ wpc' = [wpc EXCEPT ![w] = "put"]
    /\ UNCHANGED <<scan, puts, files, keywords, num_processes, buffer_size, pipeCap,
                   cpc, ci, slice, wfi, results, pipe, wlock, written,
                   final_results>>

\* the for is over: with lock
AcquireLock(w) ==
    /\ wpc[w] = "scan"
    /\ wfi[w] > Len(slice[w])
    /\ lock = 0
    /\ lock' = w
    /\ wpc' = [wpc EXCEPT ![w] = "put"]
    /\ UNCHANGED <<scan, puts, files, keywords, num_processes, buffer_size, pipeCap,
                   cpc, ci, slice, wfi, results, pipe, wlock, written,
                   final_results>>

\* queue.put(results) and the end of the with block
PutRelease(w) ==
    /\ wpc[w] = "put"
    /\ puts' = [puts EXCEPT ![w] = puts[w] + 1]
    /\ lock' = 0
    /\ wpc' = [wpc EXCEPT ![w] = "flush"]
    /\ UNCHANGED <<scan, files, keywords, num_processes, buffer_size, pipeCap,
                   cpc, ci, slice, wfi, results, pipe, wlock, written,
                   final_results>>

\* the worker's feeder thread writes what fits of its message to the pipe;
\* once the message is all written the process ends
FeederWrite(w) ==
    /\ wpc[w] = "flush"
    /\ wlock \in {0, w}
    /\ pipeCap - PipeUsed > 0
    /\ LET left == MsgSize(results[w]) - written
           room == pipeCap - PipeUsed
       IN  IF left <= room
           THEN /\ pipe' = Append(pipe, results[w])
                /\ wlock' = 0
                /\ written' = 0
                /\ wpc' = [wpc EXCEPT ![w] = "done"]
           ELSE /\ written' = written + room
                /\ wlock' = w
                /\ UNCHANGED <<pipe, wpc>>
    /\ UNCHANGED <<scan, puts, files, keywords, num_processes, buffer_size, pipeCap,
                   cpc, ci, slice, wfi, results, lock, final_results>>

Next ==
    \/ Spawn
    \/ Join
    \/ DrainGet
    \/ Return
    \/ \E w \in Workers : ScanFile(w)
    \/ \E w \in Workers : AcquireLock(w)
    \/ \E w \in Workers : PutRelease(w)
    \/ \E w \in Workers : FeederWrite(w)

Spec == Init /\ [][Next]_vars

(***************************************************************************)
(* PartSpec: the spawn loop of multiprocessing_search alone, over longer   *)
(* file lists and more workers; the workers started are not run.           *)
(***************************************************************************)
PartInit ==
    /\ scan = ScanOff
    /\ \E n \in 0..PartMaxFiles : files = [f \in 1..n |-> GoodFile(<<"a">>)]
    /\ keywords = <<>>
    /\ num_processes \in 1..PartMaxProcs
    /\ buffer_size = 1
    /\ pipeCap = 1
    /\ cpc = "spawn"
    /\ ci = 1
    /\ wpc = [w \in Workers |-> "idle"]
    /\ slice = [w \in Workers |-> <<>>]
    /\ wfi = [w \in Workers |-> 1]
    /\ results = [w \in Workers |-> EmptyDict]
    /\ lock = 0
    /\ pipe = <<>>
    /\ wlock = 0
    /\ written = 0
    /\ final_results = EmptyDict
    /\ puts = [w \in Workers |-> 0]

PartSpec == PartInit /\ [][Spawn]_vars

(***************************************************************************)
(* Properties                                                              *)
(***************************************************************************)
\* p is a contiguous substring of text
Occurs(p, text) ==
    \E k \in 0..(Len(text) - Len(p)) : SubSeq(text, k + 1, k + Len(p)) = p

Range(s) == {s[x] : x \in DOMAIN s}

\* occurrences of x in the list s
Count(s, x) == Cardinality({n \in DOMAIN s : s[n] = x})

RECURSIVE SumOver(_, _, _, _)
\* sum over the workers ws of the entries of file f under keyword k
SumOver(ws, res, k, f) ==
    IF ws = {} THEN 0
    ELSE LET w == CHOOSE x \in ws : TRUE
         IN  Count(DictGet(res[w], k, <<>>), f) + SumOver(ws \ {w}, res, k, f)

AllKeys == DOMAIN final_results \cup UNION {DOMAIN results[w] : w \in Workers}

FileIds == 1..Len(files)

\* the one pattern of a stand-alone scan of a single pattern
TheOnePattern == scan.patterns_list[1]

ScanOfOnePatternReturned ==
    /\ scan.pc = "return"
    /\ Len(scan.patterns_list) = 1
    /\ scan.size >= Len(TheOnePattern)

\* C1: for every file content, non-empty pattern P and buffer size B >= len(P),
\* bm_search reports the file under P exactly when P occurs in the file,
\* also when the occurrence lies across two consecutive chunks
C1_ChunkedScanFindsEveryOccurrence ==
    ScanOfOnePatternReturned =>
        ((TheOnePattern \in DOMAIN scan.result_dict)
            <=> Occurs(TheOnePattern, scan.file.content))

\* C2: when every listed file is readable and fits in one chunk, on return
\* the files listed under each keyword are exactly the files containing it
C2_EndToEndExactHits ==
    (/\ cpc = "returned"
     /\ \A f \in FileIds : /\ files[f].exists
                            /\ files[f].failp = 0
                            /\ Len(files[f].content) <= buffer_size)
    => \A n \in 1..Len(keywords) :
          Range(DictGet(final_results, keywords[n], <<>>))
            = {f \in FileIds : Occurs(keywords[n], files[f].content)}

\* C3: once a worker has finished its files, its PartialResult holds at most
\* one entry of a file under a keyword
C3_AtMostOneEntryPerFile ==
    \A w \in Workers :
        wpc[w] \in {"put", "flush", "done"} =>
            \A k \in DOMAIN results[w] : \A f \in Range(slice[w]) :
                Count(results[w][k], f) <= 1

\* C4: scanning the same file for the same pattern P with any two buffer
\* sizes >= len(P) gives the same found / not found answer
C4_BufferSizeInvariance ==
    ScanOfOnePatternReturned =>
        \A b2 \in Len(TheOnePattern)..ScanMaxBuf :
            (TheOnePattern \in DOMAIN scan.result_dict)
              <=> (TheOnePattern \in
                     DOMAIN bm_search(ScanFid, scan.file, scan.patterns_list, b2).dict)

\* C5: for a worker count in [1, 2 * len(files)], once every worker is
\* spawned each file is in exactly one slice, exactly once
C5_PartitionCoversOnce ==
    (cpc \in {"join", "drain", "returned"} /\ num_processes <= 2 * Len(files))
    => \A f \in FileIds :
          /\ Cardinality({w \in Workers : f \in Range(slice[w])}) = 1
          /\ \A w \in Workers : Count(slice[w], f) <= 1

C5_Witness ==
    /\ cpc = "join"
    /\ Len(files) = 2
    /\ num_processes > Len(files)
    /\ num_processes <= 2 * Len(files)

\* C6: on return, for every keyword the entries of final_results are, as a
\* multiset, the sum of the entries of the PartialResults the workers
\* pushed, and nothing is left in the queue
C6_FanInComplete ==
    cpc = "returned" =>
        /\ QueueEmpty
        /\ \A k \in AllKeys : \A f \in FileIds :
              Count(DictGet(final_results, k, <<>>), f) = SumOver(Workers, results, k, f)

C6_Witness ==
    /\ cpc = "returned"
    /\ \E w1, w2 \in Workers :
          /\ w1 # w2
          /\ DOMAIN results[w1] \cap DOMAIN results[w2] # {}

\* C7: the search ends: as long as multiprocessing_search has not returned,
\* some process can take a step (no worker waits on its push while the
\* coordinator waits in join)
C7_SearchNeverStuck == cpc = "returned" \/ ENABLED Next

\* bm_search tabulated over the inputs of Spec
SearchTable ==
    [f \in 1..MaxFiles, file \in FileKinds, kw \in KeywordLists, b \in BufferSizes |->
        bm_search(f, file, kw, b)]

\* the hits a file contributes when it is scanned on its own
HitsOf(f) ==
    LET search == SearchTable[f, files[f], keywords, buffer_size]
    IN  IF search.exc = "none" THEN search.dict ELSE EmptyDict

\* C8: with a file that does not exist in the list, no process ends by an
\* exception, and on return final_results holds for every other file the
\* hits of that file, and none for the missing file
C8_MissingFileSkipped ==
    (\E b \in FileIds : ~files[b].exists) =>
        /\ \A w \in Workers : wpc[w] # "crashed"
        /\ cpc = "returned" =>
              \A f \in FileIds : \A k \in AllKeys \cup DOMAIN HitsOf(f) :
                  Count(DictGet(final_results, k, <<>>), f)
                    = IF files[f].exists
                      THEN Count(DictGet(HitsOf(f), k, <<>>), f)
                      ELSE 0

C8_Witness ==
    /\ cpc = "returned"
    /\ \E w \in Workers :
          /\ Len(slice[w]) = 2
          /\ ~files[slice[w][1]].exists
          /\ \E k \in DOMAIN final_results : slice[w][2] \in Range(final_results[k])

\* C9: with an empty keyword in the list, a run that scans a file does not
\* return normally
C9_EmptyKeywordFailsRun ==
    (cpc = "returned" /\ Len(files) > 0) =>
        \A n \in 1..Len(keywords) : keywords[n] # <<>>

\* C10: with an empty file list no worker is ever spawned, and the result
\* returned is empty
C10_EmptyListSpawnsNoWorker ==
    Len(files) = 0 =>
        /\ \A w \in Workers : wpc[w] = "idle"
        /\ cpc = "returned" => final_results = EmptyDict

\* the cursors at which the pattern lies in the chunk (Python offsets)
OccurrencesIn(pattern, chunk) ==
    {k \in 0..(Len(chunk) - Len(pattern)) :
        SubSeq(chunk, k + 1, k + Len(pattern)) = pattern}

\* C11: within one buffer the scan finds the pattern exactly when it occurs
\* in the buffer: no shift moves the cursor over an occurrence, the loop is
\* left without a match only when the buffer holds none, and a file read as
\* one buffer is reported for the pattern exactly when it contains it
C11_MatcherFindsExactlyOccurrences ==
    /\ scan.pc = "window" =>
          \A k \in OccurrencesIn(ScanPattern, scan.chunk) : scan.i <= k
    /\ (/\ ScanOfOnePatternReturned
        /\ Len(scan.file.content) <= scan.size) =>
          ((TheOnePattern \in DOMAIN scan.result_dict)
              <=> Occurs(TheOnePattern, scan.file.content))

\* a buffer in which the occurrence is reached after a shift shorter than
\* the pattern
C11_Witness ==
    /\ scan.pc = "return"
    /\ Len(scan.patterns_list) = 1
    /\ Len(TheOnePattern) = 3
    /\ Len(scan.file.content) = 4
    /\ scan.size = 4
    /\ OccurrencesIn(TheOnePattern, scan.file.content) = {1}
    /\ TheOnePattern \in DOMAIN scan.result_dict

\* no key of the dict has an empty list
NoEmptyList(d) == \A k \in DOMAIN d : d[k] # <<>>

\* C12: a keyword is a key of a results dict, of a dict in the queue and of
\* final_results only with a non-empty list of files: a keyword found in no
\* file is not a key
C12_NoEmptyListMaterialised ==
    /\ \A w \in Workers : NoEmptyList(results[w])
    /\ \A n \in 1..Len(pipe) : NoEmptyList(pipe[n])
    /\ NoEmptyList(final_results)

\* a run with an empty slice that found one keyword and not the other
C12_Witness ==
    /\ cpc = "returned"
    /\ Len(files) >= 1
    /\ \E w \in Workers : slice[w] = <<>>
    /\ \E n1, n2 \in 1..Len(keywords) :
          /\ keywords[n1] \in DOMAIN final_results
          /\ keywords[n2] \notin DOMAIN final_results

\* the Python indices before the final position at which c is in pattern
EarlierIndices(pattern, c) == {x \in 0..(Len(pattern) - 2) : pattern[x + 1] = c}

Greatest(S) == CHOOSE x \in S : \A y \in S : y <= x

\* C13: the shift table of a non-empty pattern P of length L has the
\* distinct characters of P as its keys and values in [1, L]; a character
\* occurring before the final position maps to L - i - 1 for its right-most
\* index i in P[0..L-2]; the final character maps to L when it does not
\* occur earlier
C13_ShiftTableShape ==
    scan.pc \in {"read", "window"} =>
        LET P == ScanPattern
            L == Len(P)
            T == scan.shift_table
        IN  /\ DOMAIN T = Range(P)
            /\ \A c \in DOMAIN T :
                  /\ T[c] \in 1..L
                  /\ EarlierIndices(P, c) # {} =>
                        T[c] = L - Greatest(EarlierIndices(P, c)) - 1
                  /\ EarlierIndices(P, c) = {} => c = P[L] /\ T[c] = L

\* a table built for a pattern with a repeated character before its final
\* position, and whose final character does not occur earlier
C13_Witness ==
    /\ scan.pc = "window"
    /\ Len(ScanPattern) = 3
    /\ ScanPattern[1] = ScanPattern[2]
    /\ ScanPattern[3] # ScanPattern[1]

\* C14: a worker makes one queue.put and no more: none before its files
\* are done, one once it has left the with block, whatever its slice holds,
\* so that every worker has made one when the coordinator is past the joins;
\* the put is made holding the lock, the lock is held only by a worker
\* inside the with block, and at most one worker is inside it
C14_OnePushUnderLock ==
    /\ \A w \in Workers :
          /\ wpc[w] \in {"idle", "scan", "put"} => puts[w] = 0
          /\ wpc[w] \in {"flush", "done"} => puts[w] = 1
          /\ wpc[w] = "put" => lock = w
    /\ lock # 0 => lock \in Workers /\ wpc[lock] = "put"
    /\ cpc \in {"drain", "returned"} => \A w \in Workers : puts[w] = 1
    /\ Cardinality({w \in Workers : wpc[w] = "put"}) <= 1

\* a worker waits for the lock while one with an empty slice is inside the
\* with block, and a worker whose files all failed has pushed
C14_Witness ==
    /\ \E w1, w2 \in Workers :
          /\ wpc[w1] = "put" /\ slice[w1] = <<>>
          /\ wpc[w2] = "scan" /\ wfi[w2] > Len(slice[w2])
    /\ \E w \in Workers :
          /\ slice[w] # <<>>
          /\ \A n \in 1..Len(slice[w]) : ~files[slice[w][n]].exists
          /\ puts[w] = 1

\* C15: the coordinator is in its drain loop or has returned only when
\* every worker has ended; while a worker has not ended, nothing has been
\* taken from the queue and merged
C15_JoinBeforeDrain ==
    /\ cpc \in {"drain", "returned"} => \A w \in Workers : Terminated(w)
    /\ (\E w \in Workers : ~Terminated(w)) =>
          /\ final_results = EmptyDict
          /\ Len(pipe) = Cardinality({w \in Workers : wpc[w] = "done"})

\* the coordinator in the middle of draining the results of several workers
C15_Witness ==
    /\ cpc = "drain"
    /\ num_processes >= 2
    /\ final_results # EmptyDict
    /\ pipe # <<>>

\* the scan of file f ends by an exception
ScanRaises(f) == bm_search(f, files[f], keywords, buffer_size).exc # "none"

\* C16: a file whose scan failed, at whatever keyword and chunk, has no
\* entry in its worker's results under any keyword; the files processed
\* before and after it keep exactly their hits; the worker does not end
\* there but goes on with the next file
C16_FailedFileLeavesNoEntry ==
    \A w \in Workers :
        /\ wpc[w] # "crashed"
        /\ \A n \in 1..Len(slice[w]) :
              LET f == slice[w][n]
                  kept == IF n < wfi[w] THEN HitsOf(f) ELSE EmptyDict
              IN  \A k \in DOMAIN results[w] \cup DOMAIN kept :
                      Count(DictGet(results[w], k, <<>>), f)
                        = Count(DictGet(kept, k, <<>>), f)

\* a worker whose first file failed after hits had been appended for it, and
\* which then scanned its second file and recorded its hits
C16_Witness ==
    \E w \in Workers :
        /\ Len(slice[w]) = 2
        /\ wfi[w] = 3
        /\ files[slice[w][1]].failp # 0
        /\ ScanRaises(slice[w][1])
        /\ bm_search(slice[w][1], files[slice[w][1]], keywords, buffer_size).dict # EmptyDict
        /\ \E k \in DOMAIN results[w] : slice[w][2] \in Range(results[w][k])

\* C17: for n files and w workers the spawn loop builds w slices, the
\* k-th being the next files of the list in order: floor(n / w) files for
\* each of the first w - 1 slices, the remaining n - (w - 1) * floor(n / w)
\* for the last; with w > n the first w - 1 slices are empty
C17_SliceShape ==
    LET n == Len(files)
        q == n \div num_processes
        size(w) == IF w < num_processes THEN q ELSE n - (num_processes - 1) * q
    IN  /\ DOMAIN slice = 1..num_processes
        /\ \A w \in Workers :
              wpc[w] # "idle" =>
                  /\ slice[w] = [x \in 1..size(w) |-> (w - 1) * q + x]
                  /\ (num_processes > n /\ w < num_processes) => slice[w] = <<>>

\* all slices built, the first ones not empty and the last one longer
C17_Witness ==
    /\ cpc = "join"
    /\ num_processes >= 3
    /\ Len(files) \div num_processes >= 1
    /\ Len(files) % num_processes >= 1

\* the hits of the dict d are hits of listed files that contain the keyword
TrueHits(d) ==
    \A k \in DOMAIN d : \A f \in Range(d[k]) :
        /\ f \in FileIds
        /\ files[f].exists
        /\ Occurs(k, files[f].content)

\* C18: every file id under keyword k in a worker's results, in a message
\* of the queue or in final_results is a file of the input list whose
\* content contains k
C18_NoFalsePositives ==
    /\ \A w \in Workers : TrueHits(results[w])
    /\ \A n \in DOMAIN pipe : TrueHits(pipe[n])
    /\ TrueHits(final_results)

\* returned with a hit, while some listed file lacks that keyword and
\* another keyword of the list has no hit at all
C18_Witness ==
    /\ cpc = "returned"
    /\ \E k \in DOMAIN final_results :
          /\ final_results[k] # <<>>
          /\ \E f \in FileIds : files[f].exists /\ ~Occurs(k, files[f].content)
    /\ \E n \in DOMAIN keywords : keywords[n] \notin DOMAIN final_results

\* the most window positions a chunk has for a pattern of length L
MaxWindows(chunk, L) == IF Len(chunk) >= L THEN Len(chunk) - L + 1 ELSE 0

\* in the matching loop: the shifts are positive, the reads are inside the
\* chunk, and no more iterations were made than the chunk has positions
C19_InLoop ==
    scan.pc \in {"read", "window"} =>
        LET L == Len(ScanPattern) IN
        /\ L >= 1
        /\ \A c \in DOMAIN scan.shift_table : scan.shift_table[c] >= 1
        /\ scan.i >= 0
        /\ scan.n <= MaxWindows(scan.chunk, L)
        /\ Len(scan.chunk) < L => scan.n = 0
        /\ scan.pc = "window" =>
              /\ scan.n <= scan.i
              /\ scan.i <= Len(scan.chunk) - L =>
                    \A j \in 0..(L - 1) : /\ 0 <= scan.i + j
                                          /\ scan.i + j < Len(scan.chunk)

\* one iteration of the matching loop: a match is reported and the loop
\* left, or the cursor moves on by at least 1
C19_Iteration ==
    (scan.pc = "window" /\ scan.i <= Len(scan.chunk) - Len(ScanPattern)) =>
        \/ /\ scan'.pc = "read"
           /\ ScanFid \in Range(DictGet(scan'.result_dict, ScanPattern, <<>>))
        \/ /\ scan'.pc = "window"
           /\ scan'.i >= scan.i + 1
           /\ scan'.result_dict = scan.result_dict

\* C19: for a non-empty pattern, each iteration of the matching loop
\* reports a match and stops or advances i by at least 1, every shift is
\* at least 1, every index read lies inside the chunk, a chunk shorter
\* than the pattern is left without a comparison, and a chunk is scanned
\* in at most len(chunk) - L + 1 iterations
C19_ScanProgress == []C19_InLoop /\ [][C19_Iteration]_vars

\* a third window position is about to be compared, reached by shifts
\* smaller than the pattern's length
C19_Witness ==
    /\ scan.pc = "window"
    /\ scan.n >= 2
    /\ Len(ScanPattern) >= 2
    /\ scan.i < scan.n * Len(ScanPattern)
    /\ scan.i <= Len(scan.chunk) - Len(ScanPattern)

====
